---- MODULE Spec2Model ----
(***************************************************************************)
(* Model of package cmd (kisielk/cmd): a line-oriented command             *)
(* interpreter.  A line is a sequence of one-character strings, an output  *)
(* text is a sequence of string chunks whose concatenation is the text.    *)
(***************************************************************************)
EXTENDS Integers, Sequences, FiniteSets, TLC

\* ---------------------------------------------------------------- bounds
MaxLen == 3       \* every line of up to MaxLen characters is an input
MaxBlank == 1     \* longest whitespace-only input line, in characters
MaxIter == 2      \* lines the input stream delivers to one Loop
MaxShort == 2     \* longest line where a Cmd has its own tokenizer or a peer

\* ------------------------------------------------------------ characters
WS == {" ", "\n"}
Alphabet == WS \cup {"g", "b"}
NL == "\n"

\* What a stream may hold, and what a caller passes for a line: a newline,
\* if any, ends it.
Bytes(n) == UNION {[1..k -> Alphabet] : k \in 0..n}
IsLine(s) == \A i \in 1..(Len(s) - 1) : s[i] # NL
AllWhite(s) == \A i \in DOMAIN s : s[i] \in WS
\* Longer lines after the ones of cmd_test.go: "good arg1 arg2" and the like.
LongLines ==
  {<<"g", " ", "b", " ", "g">>, <<"g", " ", "g", " ", "b", NL>>,
   <<" ", "b", " ", "g", "b", " ">>, <<"g", "b", " ", " ", "b", " ", "g", NL>>}
Lines ==
  {s \in Bytes(MaxLen) : IsLine(s) /\ (AllWhite(s) => Len(s) <= MaxBlank)} \cup LongLines

\* ---------------------------------------------------------------- errors
NoErr == "nil"
Oops == "oops"
ErrWrite == "write failed"
ErrRead == "read failed"
EOF == "EOF"
ErrDefault == "default failed"
ErrEmpty == "empty failed"

\* ------------------------------------------------- strings.TrimSpace etc.
RECURSIVE TrimLeft(_)
TrimLeft(s) == IF s # <<>> /\ Head(s) \in WS THEN TrimLeft(Tail(s)) ELSE s

RECURSIVE TrimRight(_)
TrimRight(s) ==
  IF s # <<>> /\ s[Len(s)] \in WS THEN TrimRight(SubSeq(s, 1, Len(s) - 1)) ELSE s

TrimSpace(s) == TrimRight(TrimLeft(s))

RECURSIVE FieldsAcc(_, _, _)
FieldsAcc(s, cur, acc) ==
  IF s = <<>> THEN (IF cur = <<>> THEN acc ELSE Append(acc, cur))
  ELSE IF Head(s) \in WS
       THEN FieldsAcc(Tail(s), <<>>, IF cur = <<>> THEN acc ELSE Append(acc, cur))
       ELSE FieldsAcc(Tail(s), Append(cur, Head(s)), acc)

Fields(s) == FieldsAcc(s, <<>>, <<>>)

RECURSIVE Join(_, _)
Join(elems, sep) ==
  IF elems = <<>> THEN <<>>
  ELSE IF Len(elems) = 1 THEN Head(elems)
  ELSE Head(elems) \o <<sep>> \o Join(Tail(elems), sep)

\* ------------------------------------------------------ command handlers
good(args) == [msg |-> <<"good [">> \o Join(args, " ") \o <<"]\n">>, err |-> NoErr]
bad(args) == [msg |-> <<"bad\n">>, err |-> Oops]

hello(args) ==
  IF Len(args) = 0 THEN [msg |-> <<"What's your name?\n">>, err |-> NoErr]
  ELSE [msg |-> <<"Hello, ">> \o Join(args, " ") \o <<"\n">>, err |-> NoErr]

commands == (<<"g">> :> "good") @@ (<<"b">> :> "bad")

\* The same table with a handler registered under the empty name.
commandsE == commands @@ (<<>> :> "hello")

CmdFn(fn, args) ==
  IF fn = "good" THEN good(args)
  ELSE IF fn = "hello" THEN hello(args)
  ELSE bad(args)

\* ------------------------------------------------------------------- Cmd
DefaultPrompt == <<"> ">>

New(c) ==
  [Prompt |-> DefaultPrompt, LastLine |-> <<>>, Commands |-> c,
   EmptyLine |-> "repeat", Default |-> "unrecognized", Tokens |-> "Fields"]

\* strings.Split(s, sep) for a one-character sep: the pieces between the
\* occurrences of sep, empty ones too.
RECURSIVE SplitAcc(_, _, _, _)
SplitAcc(s, sep, cur, acc) ==
  IF s = <<>> THEN Append(acc, cur)
  ELSE IF Head(s) = sep THEN SplitAcc(Tail(s), sep, <<>>, Append(acc, cur))
       ELSE SplitAcc(Tail(s), sep, Append(cur, Head(s)), acc)

Split(s, sep) == SplitAcc(s, sep, <<>>, <<>>)

\* c.Tokens: strings.Fields unless the caller sets another function.  Two a
\* caller may set: "comment" gives no token for a line that begins with "b"
\* and the fields of any other; "split" is strings.Split(line, "b").
Tokenize(tok, line) ==
  IF tok = "comment" THEN (IF Head(line) = "b" THEN <<>> ELSE Fields(line))
  ELSE IF tok = "split" THEN Split(line, "b")
  ELSE Fields(line)

\* parseLine passing every token on as an argument, the command name too.
parseLine_allargs(c, line) ==
  LET tokens == Tokenize(c.Tokens, TrimSpace(line)) IN
  IF Len(tokens) = 0 THEN [cmd |-> <<>>, args |-> <<>>]
  ELSE [cmd |-> tokens[1], args |-> tokens]

\* parseLine taking a line without tokens for the name of a command.
parseLine_wholeline(c, line) ==
  LET l == TrimSpace(line) IN
  IF Len(l) = 0 THEN [cmd |-> <<>>, args |-> <<>>]
  ELSE LET tokens == Tokenize(c.Tokens, l) IN
       IF Len(tokens) = 0 THEN [cmd |-> l, args |-> <<>>]
       ELSE [cmd |-> tokens[1],
             args |-> IF Len(tokens) > 1 THEN Tail(tokens) ELSE <<>>]

parseLine(c, line) ==
  LET l == TrimSpace(line) IN
  IF Len(l) = 0 THEN [cmd |-> <<>>, args |-> <<>>]
  ELSE LET tokens == Tokenize(c.Tokens, l) IN
       IF Len(tokens) = 0 THEN [cmd |-> <<>>, args |-> <<>>]
       ELSE [cmd |-> tokens[1],
             args |-> IF Len(tokens) > 1 THEN Tail(tokens) ELSE <<>>]

\* Default reporting the unknown command as an error.
DefaultFn_fatal(c, line) ==
  [msg |-> <<"unrecognized command: ">> \o Fields(line)[1] \o <<"\n">>,
   err |-> ErrDefault]

\* Default echoing the line as received instead of its first field.
DefaultFn_rawline(c, line) ==
  IF c.Default = "unrecognized"
  THEN [msg |-> <<"unrecognized command: ">> \o line \o <<"\n">>, err |-> NoErr]
  ELSE [msg |-> <<"what?\n">>, err |-> ErrDefault]

DefaultFn(c, line) ==
  IF c.Default = "unrecognized"
  THEN [msg |-> <<"unrecognized command: ">> \o Fields(line)[1] \o <<"\n">>,
        err |-> NoErr]
  ELSE [msg |-> <<"what?\n">>, err |-> ErrDefault]

\* The callbacks of a Cmd are named by a string: Default is "unrecognized"
\* (the one New installs) or "custom", EmptyLine is "repeat" (the one New
\* installs) or "custom".  A custom callback returns a text and an error.
\*
\* The result of a call of one: the Cmd afterwards, the error returned, the
\* error of the callback (cmderr), the callbacks invoked and the Write calls
\* made on c.Out, in order.  wok: whether c.Out accepts writes during the call.
RECURSIVE one(_, _, _)
RECURSIVE EmptyLineFn(_, _)

\* EmptyLine handing back the text the nested call has already written.
EmptyLineFn_echo(c, wok) ==
  IF c.EmptyLine = "repeat"
  THEN IF Len(c.LastLine) > 0
       THEN LET r == one(c, c.LastLine, wok) IN
            [c |-> r.c, msg |-> IF r.writes = <<>> THEN <<>> ELSE r.writes[1].text,
             cmderr |-> r.err, calls |-> r.calls, writes |-> r.writes]
       ELSE [c |-> c, msg |-> <<>>, cmderr |-> NoErr,
             calls |-> <<>>, writes |-> <<>>]
  ELSE [c |-> c, msg |-> <<"empty\n">>, cmderr |-> ErrEmpty,
        calls |-> <<>>, writes |-> <<>>]

\* EmptyLine failing when there is nothing to repeat.
EmptyLineFn_strict(c, wok) ==
  IF c.EmptyLine = "repeat"
  THEN IF Len(c.LastLine) > 0
       THEN LET r == one(c, c.LastLine, wok) IN
            [c |-> r.c, msg |-> <<>>, cmderr |-> r.err,
             calls |-> r.calls, writes |-> r.writes]
       ELSE [c |-> c, msg |-> <<>>, cmderr |-> ErrEmpty,
             calls |-> <<>>, writes |-> <<>>]
  ELSE [c |-> c, msg |-> <<"empty\n">>, cmderr |-> ErrEmpty,
        calls |-> <<>>, writes |-> <<>>]

EmptyLineFn(c, wok) ==
  IF c.EmptyLine = "repeat"
  THEN IF Len(c.LastLine) > 0
       THEN LET r == one(c, c.LastLine, wok) IN
            [c |-> r.c, msg |-> <<>>, cmderr |-> r.err,
             calls |-> r.calls, writes |-> r.writes]
       ELSE [c |-> c, msg |-> <<>>, cmderr |-> NoErr,
             calls |-> <<>>, writes |-> <<>>]
  ELSE [c |-> c, msg |-> <<"empty\n">>, cmderr |-> ErrEmpty,
        calls |-> <<>>, writes |-> <<>>]

\* LastLine keeping the trimmed line.
setLastLine_trim(c, line) == [c EXCEPT !.LastLine = TrimSpace(line)]

setLastLine(c, line) == [c EXCEPT !.LastLine = line]

\* one recording every line as LastLine once it has been handled, blank or not.
dispatch_setlast(c, line, wok) ==
  LET p == parseLine(c, line) IN
  IF p.cmd = <<>>
  THEN LET e == EmptyLineFn(c, wok) IN
       [e EXCEPT !.calls = <<[fn |-> "EmptyLine", args |-> <<>>]>> \o @,
                 !.c = setLastLine(@, line)]
  ELSE LET c1 == setLastLine(c, line) IN
       IF p.cmd \notin DOMAIN c1.Commands
       THEN LET d == DefaultFn(c1, line) IN
            [c |-> c1, msg |-> d.msg, cmderr |-> d.err,
             calls |-> <<[fn |-> "Default", args |-> <<line>>]>>,
             writes |-> <<>>]
       ELSE LET fn == c1.Commands[p.cmd]
                h == CmdFn(fn, p.args) IN
            [c |-> c1, msg |-> h.msg, cmderr |-> h.err,
             calls |-> <<[fn |-> fn, args |-> p.args]>>,
             writes |-> <<>>]

\* one going by the number of tokens, not by the name: an empty first token
\* is looked up like any other.
dispatch_bycount(c, line, wok) ==
  LET p == parseLine(c, line)
      l == TrimSpace(line)
      n == IF Len(l) = 0 THEN 0 ELSE Len(Tokenize(c.Tokens, l)) IN
  IF n = 0
  THEN LET e == EmptyLineFn(c, wok) IN
       [e EXCEPT !.calls = <<[fn |-> "EmptyLine", args |-> <<>>]>> \o @]
  ELSE LET c1 == setLastLine(c, line) IN
       IF p.cmd \notin DOMAIN c1.Commands
       THEN LET d == DefaultFn(c1, line) IN
            [c |-> c1, msg |-> d.msg, cmderr |-> d.err,
             calls |-> <<[fn |-> "Default", args |-> <<line>>]>>,
             writes |-> <<>>]
       ELSE LET fn == c1.Commands[p.cmd]
                h == CmdFn(fn, p.args) IN
            [c |-> c1, msg |-> h.msg, cmderr |-> h.err,
             calls |-> <<[fn |-> fn, args |-> p.args]>>,
             writes |-> <<>>]

\* one, up to the Write: parse, then EmptyLine, Default or the command.
dispatch(c, line, wok) ==
  LET p == parseLine(c, line) IN
  IF p.cmd = <<>>
  THEN LET e == EmptyLineFn(c, wok) IN
       [e EXCEPT !.calls = <<[fn |-> "EmptyLine", args |-> <<>>]>> \o @]
  ELSE LET c1 == setLastLine(c, line) IN
       IF p.cmd \notin DOMAIN c1.Commands
       THEN LET d == DefaultFn(c1, line) IN
            [c |-> c1, msg |-> d.msg, cmderr |-> d.err,
             calls |-> <<[fn |-> "Default", args |-> <<line>>]>>,
             writes |-> <<>>]
       ELSE LET fn == c1.Commands[p.cmd]
                h == CmdFn(fn, p.args) IN
            [c |-> c1, msg |-> h.msg, cmderr |-> h.err,
             calls |-> <<[fn |-> fn, args |-> p.args]>>,
             writes |-> <<>>]

\* one dropping the message of a callback that failed.
emit_skiponerr(r, wok) ==
  IF r.msg # <<>> /\ r.cmderr = NoErr
  THEN [c |-> r.c, calls |-> r.calls, cmderr |-> r.cmderr,
        writes |-> Append(r.writes, [text |-> r.msg, ok |-> wok]),
        err |-> IF wok THEN r.cmderr ELSE ErrWrite]
  ELSE [c |-> r.c, calls |-> r.calls, cmderr |-> r.cmderr,
        writes |-> r.writes, err |-> r.cmderr]

\* one writing the message without looking whether it is empty.
emit_always(r, wok) ==
  [c |-> r.c, calls |-> r.calls, cmderr |-> r.cmderr,
   writes |-> Append(r.writes, [text |-> r.msg, ok |-> wok]),
   err |-> IF wok THEN r.cmderr ELSE ErrWrite]

\* one preferring the callback's error to that of the failed Write.
emit_cmderrfirst(r, wok) ==
  IF r.msg # <<>>
  THEN [c |-> r.c, calls |-> r.calls, cmderr |-> r.cmderr,
        writes |-> Append(r.writes, [text |-> r.msg, ok |-> wok]),
        err |-> IF wok \/ r.cmderr # NoErr THEN r.cmderr ELSE ErrWrite]
  ELSE [c |-> r.c, calls |-> r.calls, cmderr |-> r.cmderr,
        writes |-> r.writes, err |-> r.cmderr]

\* one, from the Write on: the message goes to c.Out, the error is returned.
emit(r, wok) ==
  IF r.msg # <<>>
  THEN [c |-> r.c, calls |-> r.calls, cmderr |-> r.cmderr,
        writes |-> Append(r.writes, [text |-> r.msg, ok |-> wok]),
        err |-> IF wok THEN r.cmderr ELSE ErrWrite]
  ELSE [c |-> r.c, calls |-> r.calls, cmderr |-> r.cmderr,
        writes |-> r.writes, err |-> r.cmderr]

one(c, line, wok) == emit(dispatch(c, line, wok), wok)

\* bufio.Reader.ReadBytes(delim) on a stream still holding the bytes s: the
\* bytes up to and including the first delim, or all of s and the error the
\* stream ends with.
RECURSIVE IndexByte(_, _, _)
IndexByte(s, delim, i) ==
  IF i > Len(s) THEN 0
  ELSE IF s[i] = delim THEN i ELSE IndexByte(s, delim, i + 1)

ReadBytes(s, delim, end) ==
  LET i == IndexByte(s, delim, 1) IN
  IF i > 0 THEN [line |-> SubSeq(s, 1, i), err |-> NoErr]
  ELSE [line |-> s, err |-> end]

\* ----------------------------------------------------------------- state
VARIABLES
  c,      \* the Cmd
  pc,     \* where the caller is: "init", "idle", "ready", or a place in Loop
  buf,    \* Loop's local line: what the last ReadBytes returned
  line,   \* the line given to the top-level call of one just made, if any
  res,    \* what that call did: [err, cmderr, calls, writes]; Loop forgets
          \* both when it writes its next prompt
  last,   \* history: the most recent line given to one that was not all white
  trace,  \* events of the running Loop, oldest first
  ret,    \* the error Loop returned
  inp,    \* the bytes of c.In from its start, where they are known beforehand
  pos,    \* how many of them have been read
  c2,     \* a second Cmd, made by another call of New
  last2,  \* history: last for c2
  buf2,   \* buf for c2
  who,    \* the Cmd that made the last call of one: 1 for c, 2 for c2
  run     \* where the Loop of each Cmd is, when the two run side by side

vars == <<c, pc, buf, line, res, last, trace, ret, inp, pos, c2, last2, buf2,
          who, run>>

\* What only the specifications further down use.
xvars == <<inp, pos, c2, last2, buf2, who, run>>

XInit ==
  /\ inp = <<>>
  /\ pos = 0
  /\ c2 = New(commands)
  /\ last2 = <<>>
  /\ buf2 = <<>>
  /\ who = 0
  /\ run = <<>>

NoRes == [err |-> NoErr, cmderr |-> NoErr, calls |-> <<>>, writes |-> <<>>]

Result(r) == [err |-> r.err, cmderr |-> r.cmderr, calls |-> r.calls, writes |-> r.writes]

Init ==
  /\ \E d \in {"unrecognized", "custom"}, e \in {"repeat", "custom"} :
       c = [New(commands) EXCEPT !.Default = d, !.EmptyLine = e]
  /\ pc = "init"
  /\ buf = <<>>
  /\ line = <<>>
  /\ res = NoRes
  /\ last = <<>>
  /\ trace = <<>>
  /\ ret = NoErr
  /\ XInit

\* A caller hands one line to c.one (TestOne).
CallOne ==
  /\ pc \in {"init", "ready"}
  /\ \E l \in Lines, wok \in BOOLEAN :
       LET r == one(c, l, wok) IN
       /\ c' = r.c
       /\ line' = l
       /\ res' = Result(r)
       /\ last' = IF AllWhite(l) THEN last ELSE l
  /\ pc' = "idle"
  /\ UNCHANGED <<buf, trace, ret>>
  /\ UNCHANGED xvars

\* The caller of c.one has taken the error it returned and goes on.
CallDone ==
  /\ pc = "idle"
  /\ pc' = "ready"
  /\ line' = <<>>
  /\ res' = NoRes
  /\ UNCHANGED <<c, buf, last, trace, ret>>
  /\ UNCHANGED xvars

\* Loop: c.Out.Write([]byte(c.Prompt))
LoopPrompt ==
  /\ pc \in {"init", "prompt"}
  /\ \E wok \in BOOLEAN :
       IF wok
       THEN /\ trace' = Append(trace, "prompt")
            /\ pc' = "read"
            /\ ret' = ret
       ELSE /\ trace' = Append(trace, "promptfail")
            /\ pc' = "returned"
            /\ ret' = ErrWrite
  /\ line' = <<>>
  /\ res' = NoRes
  /\ UNCHANGED <<c, buf, last>>
  /\ UNCHANGED xvars

LinesRead == Cardinality({i \in DOMAIN trace : trace[i] = "read"})

\* Loop prompting again after a failed read.
LoopRead_retry ==
  /\ pc = "read"
  /\ \E s \in Bytes(MaxLen) \cup LongLines, end \in {EOF, ErrRead} :
       LET r == ReadBytes(s, NL, end) IN
       /\ r.err = NoErr => LinesRead < MaxIter
       /\ buf' = r.line
       /\ IF r.err = NoErr
          THEN /\ trace' = Append(trace, "read")
               /\ pc' = "one"
               /\ ret' = ret
          ELSE /\ trace' = Append(trace, IF r.err = EOF THEN "eof" ELSE "readerr")
               /\ pc' = "prompt"
               /\ ret' = r.err
  /\ UNCHANGED <<c, line, res, last>>
  /\ UNCHANGED xvars

\* Loop taking the end of the stream for a normal return.
LoopRead_eofnil ==
  /\ pc = "read"
  /\ \E s \in Bytes(MaxLen) \cup LongLines, end \in {EOF, ErrRead} :
       LET r == ReadBytes(s, NL, end) IN
       /\ r.err = NoErr => LinesRead < MaxIter
       /\ buf' = r.line
       /\ IF r.err = NoErr
          THEN /\ trace' = Append(trace, "read")
               /\ pc' = "one"
               /\ ret' = ret
          ELSE /\ trace' = Append(trace, IF r.err = EOF THEN "eof" ELSE "readerr")
               /\ pc' = "returned"
               /\ ret' = IF r.err = EOF THEN NoErr ELSE r.err
  /\ UNCHANGED <<c, line, res, last>>
  /\ UNCHANGED xvars

\* Loop handing the unterminated rest of the stream to one.
LoopRead_partial ==
  /\ pc = "read"
  /\ \E s \in Bytes(MaxLen) \cup LongLines, end \in {EOF, ErrRead} :
       LET r == ReadBytes(s, NL, end) IN
       /\ r.err = NoErr => LinesRead < MaxIter
       /\ buf' = r.line
       /\ IF r.err = NoErr
          THEN /\ trace' = Append(trace, "read")
               /\ pc' = "one"
               /\ ret' = ret
          ELSE /\ trace' = Append(trace, IF r.err = EOF THEN "eof" ELSE "readerr")
               /\ pc' = IF r.line # <<>> THEN "one" ELSE "returned"
               /\ ret' = r.err
  /\ UNCHANGED <<c, line, res, last>>
  /\ UNCHANGED xvars

\* Loop: rd.ReadBytes('\n'); the stream delivers at most MaxIter lines.
LoopRead ==
  /\ pc = "read"
  /\ \E s \in Bytes(MaxLen) \cup LongLines, end \in {EOF, ErrRead} :
       LET r == ReadBytes(s, NL, end) IN
       /\ r.err = NoErr => LinesRead < MaxIter
       /\ buf' = r.line
       /\ IF r.err = NoErr
          THEN /\ trace' = Append(trace, "read")
               /\ pc' = "one"
               /\ ret' = ret
          ELSE /\ trace' = Append(trace, IF r.err = EOF THEN "eof" ELSE "readerr")
               /\ pc' = "returned"
               /\ ret' = r.err
  /\ UNCHANGED <<c, line, res, last>>
  /\ UNCHANGED xvars

WriteEvents(writes) ==
  [i \in DOMAIN writes |-> IF writes[i].ok THEN "out" ELSE "outfail"]

\* Loop going on after a callback's error, stopping for failed writes only.
LoopOne_goeson ==
  /\ pc = "one"
  /\ \E wok \in BOOLEAN :
       LET r == one(c, buf, wok) IN
       /\ c' = r.c
       /\ line' = buf
       /\ res' = Result(r)
       /\ last' = IF AllWhite(buf) THEN last ELSE buf
       /\ trace' = trace \o <<IF r.cmderr = NoErr THEN "call" ELSE "callerr">>
                         \o WriteEvents(r.writes)
       /\ IF r.err = ErrWrite
          THEN pc' = "returned" /\ ret' = r.err
          ELSE pc' = "prompt" /\ ret' = ret
  /\ UNCHANGED buf
  /\ UNCHANGED xvars

\* Loop: c.one(string(line))
LoopOne ==
  /\ pc = "one"
  /\ \E wok \in BOOLEAN : \E r \in {one(c, buf, wok)} :
       /\ c' = r.c
       /\ line' = buf
       /\ res' = Result(r)
       /\ last' = IF AllWhite(buf) THEN last ELSE buf
       /\ trace' = trace \o <<IF r.cmderr = NoErr THEN "call" ELSE "callerr">>
                         \o WriteEvents(r.writes)
       /\ IF r.err # NoErr
          THEN pc' = "returned" /\ ret' = r.err
          ELSE pc' = "prompt" /\ ret' = ret
  /\ UNCHANGED buf
  /\ UNCHANGED xvars

Next == CallOne \/ CallDone \/ LoopPrompt \/ LoopRead \/ LoopOne

Spec == Init /\ [][Next]_vars

\* ------------------------------------------- a caller's own c.Tokens
\* New, then the caller sets c.Tokens (and perhaps c.EmptyLine); the table
\* has a handler under the empty name.  Lines are handed to c.one.
ShortLines == {s \in Lines : Len(s) <= MaxShort}

InitTok ==
  /\ \E cf \in {<<"comment", "custom">>, <<"split", "repeat">>} :
       c = [New(commandsE) EXCEPT !.Tokens = cf[1], !.EmptyLine = cf[2]]
  /\ pc = "init"
  /\ buf = <<>>
  /\ line = <<>>
  /\ res = NoRes
  /\ last = <<>>
  /\ trace = <<>>
  /\ ret = NoErr
  /\ XInit

CallTok ==
  /\ pc \in {"init", "ready"}
  /\ \E l \in ShortLines, wok \in BOOLEAN :
       LET r == one(c, l, wok) IN
       /\ c' = r.c
       /\ line' = l
       /\ res' = Result(r)
       /\ last' = IF AllWhite(l) THEN last ELSE l
  /\ pc' = "idle"
  /\ UNCHANGED <<buf, trace, ret>>
  /\ UNCHANGED xvars

NextTok == CallTok \/ CallDone

SpecTok == InitTok /\ [][NextTok]_vars

\* ------------------------------------------- a stream known beforehand
\* c.In reads a finite stream: some lines, then perhaps bytes with no
\* newline after them, then the end (io.EOF, or an error of the reader).
StreamLines == {<<NL>>, <<"g", NL>>, <<"b", NL>>, <<"g", "g", " ", "b", NL>>}

StreamTails == {<<>>, <<"g">>}

RECURSIVE Streams(_)
Streams(n) ==
  IF n = 0 THEN {<<>>}
  ELSE {<<>>} \cup {l \o s : l \in StreamLines, s \in Streams(n - 1)}

InitStream ==
  /\ \E df \in {"unrecognized", "custom"}, e \in {"repeat", "custom"} :
       c = [New(commands) EXCEPT !.Default = df, !.EmptyLine = e]
  /\ pc = "init"
  /\ buf = <<>>
  /\ line = <<>>
  /\ res = NoRes
  /\ last = <<>>
  /\ trace = <<>>
  /\ ret = NoErr
  /\ inp \in {s \o t : s \in Streams(MaxIter), t \in StreamTails}
  /\ pos = 0
  /\ c2 = New(commands)
  /\ last2 = <<>>
  /\ buf2 = <<>>
  /\ who = 0
  /\ run = <<>>

\* A reader that hands out the bytes without consuming them.
StreamRead_peek ==
  /\ pc = "read"
  /\ \E end \in {EOF, ErrRead} :
       LET r == ReadBytes(SubSeq(inp, pos + 1, Len(inp)), NL, end) IN
       /\ buf' = r.line
       /\ pos' = pos
       /\ IF r.err = NoErr
          THEN /\ trace' = Append(trace, "read")
               /\ pc' = "one"
               /\ ret' = ret
          ELSE /\ trace' = Append(trace, IF r.err = EOF THEN "eof" ELSE "readerr")
               /\ pc' = "returned"
               /\ ret' = r.err
  /\ UNCHANGED <<c, line, res, last, inp, c2, last2, buf2, who, run>>

\* Loop: line, err := input.ReadBytes('\n'), on what the stream has left
StreamRead ==
  /\ pc = "read"
  /\ \E end \in {EOF, ErrRead} :
       LET r == ReadBytes(SubSeq(inp, pos + 1, Len(inp)), NL, end) IN
       /\ buf' = r.line
       /\ pos' = pos + Len(r.line)
       /\ IF r.err = NoErr
          THEN /\ trace' = Append(trace, "read")
               /\ pc' = "one"
               /\ ret' = ret
          ELSE /\ trace' = Append(trace, IF r.err = EOF THEN "eof" ELSE "readerr")
               /\ pc' = "returned"
               /\ ret' = r.err
  /\ UNCHANGED <<c, line, res, last, inp, c2, last2, buf2, who, run>>

NextStream == LoopPrompt \/ StreamRead \/ LoopOne

\* Loop is one goroutine of blocking calls: a write, a read or a callback
\* that can finish does finish, so each step that stays possible is taken.
SpecStream ==
  /\ InitStream
  /\ [][NextStream]_vars
  /\ WF_vars(LoopPrompt)
  /\ WF_vars(StreamRead)
  /\ WF_vars(LoopOne)

\* ------------------------------------------------- two Cmds side by side
\* A server makes a Cmd for each connection with New, over one table, and
\* runs each Loop in a goroutine of its own: the steps of the two Loops
\* interleave in every way.  Cmd 1 is c, Cmd 2 is c2.
Sessions == {1, 2}

SessLines == {<<NL>>, <<"g", NL>>, <<"g", "g", NL>>, <<"b", NL>>}

InitTwo ==
  /\ c = New(commands)
  /\ c2 = New(commands)
  /\ pc = "init"
  /\ buf = <<>>
  /\ buf2 = <<>>
  /\ line = <<>>
  /\ res = NoRes
  /\ last = <<>>
  /\ last2 = <<>>
  /\ trace = <<>>
  /\ ret = NoErr
  /\ inp = <<>>
  /\ pos = 0
  /\ who = 0
  /\ run = [i \in Sessions |-> "prompt"]

\* Loop of Cmd i: c.Out.Write([]byte(c.Prompt))
SessPrompt(i) ==
  /\ run[i] = "prompt"
  /\ \E wok \in BOOLEAN :
       run' = [run EXCEPT ![i] = IF wok THEN "read" ELSE "returned"]
  /\ UNCHANGED <<c, pc, buf, line, res, last, trace, ret, inp, pos, c2, last2,
                 buf2, who>>

\* Loop of Cmd i: input.ReadBytes('\n') on its own connection
SessRead(i) ==
  /\ run[i] = "read"
  /\ \E s \in SessLines \cup {<<>>}, end \in {EOF, ErrRead} :
       LET r == ReadBytes(s, NL, end) IN
       /\ IF i = 1 THEN buf' = r.line /\ buf2' = buf2
                   ELSE buf2' = r.line /\ buf' = buf
       /\ run' = [run EXCEPT ![i] = IF r.err = NoErr THEN "one" ELSE "returned"]
  /\ UNCHANGED <<c, pc, line, res, last, trace, ret, inp, pos, c2, last2, who>>

\* LastLine kept in one variable of the package, which every Cmd sets.
SessOne_shared(i) ==
  /\ run[i] = "one"
  /\ \E wok \in BOOLEAN :
       \E r \in {one(IF i = 1 THEN c ELSE c2, IF i = 1 THEN buf ELSE buf2, wok)} :
         /\ c' = IF i = 1 THEN r.c ELSE [c EXCEPT !.LastLine = r.c.LastLine]
         /\ c2' = IF i = 2 THEN r.c ELSE [c2 EXCEPT !.LastLine = r.c.LastLine]
         /\ IF i = 1
            THEN /\ last' = IF AllWhite(buf) THEN last ELSE buf
                 /\ last2' = last2
                 /\ line' = buf
            ELSE /\ last2' = IF AllWhite(buf2) THEN last2 ELSE buf2
                 /\ last' = last
                 /\ line' = buf2
         /\ res' = Result(r)
         /\ who' = i
         /\ run' = [run EXCEPT ![i] = IF r.err # NoErr THEN "returned" ELSE "prompt"]
  /\ UNCHANGED <<pc, buf, buf2, trace, ret, inp, pos>>

\* Loop of Cmd i: c.one(string(line)), on the Cmd's own fields
SessOne(i) ==
  /\ run[i] = "one"
  /\ \E wok \in BOOLEAN :
       \E r \in {one(IF i = 1 THEN c ELSE c2, IF i = 1 THEN buf ELSE buf2, wok)} :
         /\ IF i = 1
            THEN /\ c' = r.c
                 /\ c2' = c2
                 /\ last' = IF AllWhite(buf) THEN last ELSE buf
                 /\ last2' = last2
                 /\ line' = buf
            ELSE /\ c2' = r.c
                 /\ c' = c
                 /\ last2' = IF AllWhite(buf2) THEN last2 ELSE buf2
                 /\ last' = last
                 /\ line' = buf2
         /\ res' = Result(r)
         /\ who' = i
         /\ run' = [run EXCEPT ![i] = IF r.err # NoErr THEN "returned" ELSE "prompt"]
  /\ UNCHANGED <<pc, buf, buf2, trace, ret, inp, pos>>

NextTwo == \E i \in Sessions : SessPrompt(i) \/ SessRead(i) \/ SessOne(i)

SpecTwo == InitTwo /\ [][NextTwo]_vars

\* ------------------------------------------------- terms of the properties
\* The whitespace-separated tokens of a line, by position: a token starts at
\* a non-white character that follows a white one (or nothing) and runs to
\* the last non-white character before the next white one.
TokStarts(s) == {i \in DOMAIN s : s[i] \notin WS /\ (i = 1 \/ s[i - 1] \in WS)}
TokEnd(s, i) ==
  CHOOSE j \in i..Len(s) :
    /\ \A m \in i..j : s[m] \notin WS
    /\ (j = Len(s) \/ s[j + 1] \in WS)
NthStart(s, k) ==
  CHOOSE i \in TokStarts(s) : Cardinality({j \in TokStarts(s) : j < i}) = k - 1
Words(s) ==
  [k \in 1..Cardinality(TokStarts(s)) |-> SubSeq(s, NthStart(s, k), TokEnd(s, NthStart(s, k)))]
Rest(w) == [k \in 1..(Len(w) - 1) |-> w[k + 1]]

\* A top-level call of one has been made; line and res describe it.
Called == res.calls # <<>>
\* ... and it was made by Loop, which has not moved on since.
LoopCalled ==
  /\ pc \in {"prompt", "returned"}
  /\ trace # <<>>
  /\ trace[Len(trace)] \in {"call", "callerr", "out", "outfail"}
Texts(writes) == [i \in DOMAIN writes |-> writes[i].text]
Unrecognized(n) == <<"unrecognized command: ">> \o n \o <<"\n">>

\* What processing a line with a token is to produce under configuration cf:
\* the output of the handler registered for the first word, run on the other
\* words, or that of the Default callback.
Outcome(cf, l) ==
  LET w == Words(l) IN
  IF w[1] \in DOMAIN cf.Commands THEN CmdFn(cf.Commands[w[1]], Rest(w))
  ELSE IF cf.Default = "unrecognized"
       THEN [msg |-> Unrecognized(w[1]), err |-> NoErr]
       ELSE [msg |-> <<"what?\n">>, err |-> ErrDefault]

\* ------------------------------------------------------------------ C1
\* C1: a line whose first whitespace-separated token is a registered name
\* makes one call of that name's handler with the remaining tokens in order,
\* calls nothing else, and hands exactly the handler's output to c.Out.
C1_RegisteredDispatch ==
  (Called /\ Words(line) # <<>> /\ Words(line)[1] \in DOMAIN commands) =>
    LET w == Words(line)
        h == commands[w[1]] IN
    /\ res.calls = <<[fn |-> h, args |-> Rest(w)]>>
    /\ Texts(res.writes) = <<CmdFn(h, Rest(w)).msg>>

\* "g b g": good is called with <<b, g>> and its output reaches c.Out.
C1_Witness ==
  /\ Called
  /\ Len(Words(line)) = 3
  /\ Words(line)[1] = <<"g">>
  /\ Words(line)[2] # Words(line)[3]
  /\ Len(res.writes) = 1 /\ res.writes[1].ok

\* ------------------------------------------------------------------ C2
\* C2: with the Default New installs, a line whose first token is not in the
\* command table calls Default only, hands "unrecognized command: <token>" to
\* c.Out and, the write done, returns no error: Loop goes on to prompt.
C2_UnrecognizedIsNoError ==
  (/\ Called /\ c.Default = "unrecognized"
   /\ Words(line) # <<>> /\ Words(line)[1] \notin DOMAIN commands) =>
    /\ res.calls = <<[fn |-> "Default", args |-> <<line>>]>>
    /\ Texts(res.writes) = <<Unrecognized(Words(line)[1])>>
    /\ res.cmderr = NoErr
    /\ res.writes[1].ok => res.err = NoErr
    /\ (LoopCalled /\ res.writes[1].ok) => (pc = "prompt" /\ ret = NoErr)

C2_Witness ==
  /\ LoopCalled /\ c.Default = "unrecognized"
  /\ Words(line) # <<>> /\ Words(line)[1] \notin DOMAIN commands
  /\ Len(Words(line)) > 1
  /\ res.writes[1].ok /\ pc = "prompt"

\* ------------------------------------------------------------------ C3
\* C3: with the EmptyLine New installs, once a line with a token has been
\* processed, an all-white line gives the output and the error of processing
\* that line again, written once.
C3_RepeatLast ==
  (Called /\ c.EmptyLine = "repeat" /\ AllWhite(line) /\ last # <<>>) =>
    LET o == Outcome(c, last) IN
    /\ Texts(res.writes) = <<o.msg>>
    /\ res.err = IF res.writes[1].ok THEN o.err ELSE ErrWrite

\* A blank line after "b": "bad\n" again, and oops again.
C3_Witness ==
  /\ Called /\ c.EmptyLine = "repeat" /\ AllWhite(line)
  /\ last # <<>> /\ Words(last)[1] = <<"b">>
  /\ res.err = Oops /\ Len(res.writes) = 1

\* ------------------------------------------------------------------ C4
\* C4: LastLine is the raw text of the most recent processed line that has a
\* token, or empty when there has been none; whatever the call came to.
C4_LastLineIsLastTokenLine == c.LastLine = last

\* The write of the output of a line with padding failed; LastLine is that line.
C4_Witness ==
  /\ Called /\ res.err = ErrWrite
  /\ ~AllWhite(line) /\ line[1] \in WS /\ line[Len(line)] \in WS
  /\ c.LastLine = line

\* ------------------------------------------------------------------ C5
\* C5: with the EmptyLine New installs and no line with a token processed
\* yet, an all-white line writes nothing, calls no handler, leaves LastLine
\* empty and returns no error.
C5_BlankWithoutLast ==
  (Called /\ c.EmptyLine = "repeat" /\ AllWhite(line) /\ last = <<>>) =>
    /\ res.writes = <<>>
    /\ res.calls = <<[fn |-> "EmptyLine", args |-> <<>>]>>
    /\ c.LastLine = <<>>
    /\ res.err = NoErr

C5_Witness ==
  /\ Called /\ c.EmptyLine = "repeat" /\ line = <<NL>> /\ last = <<>>
  /\ res.err = NoErr

\* ------------------------------------------------------------------ C6
\* What the callback invoked last in a call returned to one.
Returned(cf, call) ==
  IF call.fn = "EmptyLine"
  THEN IF cf.EmptyLine = "repeat" THEN [msg |-> <<>>, err |-> NoErr]
       ELSE [msg |-> <<"empty\n">>, err |-> ErrEmpty]
  ELSE IF call.fn = "Default" THEN Outcome(cf, call.args[1])
  ELSE CmdFn(call.fn, call.args)
LastCall == res.calls[Len(res.calls)]

\* C6: in Loop every read follows its prompt, every call the read of its
\* line, every output its call, and the next prompt comes only after a call
\* that returned no error; the output is that of the line just read.
C6_PromptThenOutput ==
  /\ \A i \in DOMAIN trace :
       /\ trace[i] \in {"prompt", "promptfail"} =>
            (i = 1 \/ trace[i - 1] \in {"call", "out"})
       /\ trace[i] \in {"read", "eof", "readerr"} => (i > 1 /\ trace[i - 1] = "prompt")
       /\ trace[i] \in {"call", "callerr"} => (i > 1 /\ trace[i - 1] = "read")
       /\ trace[i] \in {"out", "outfail"} =>
            (i > 1 /\ trace[i - 1] \in {"call", "callerr"})
       /\ trace[i] = "callerr" => \A j \in (i + 1)..Len(trace) : trace[j] \in {"out", "outfail"}
  /\ LoopCalled =>
       /\ line = buf
       /\ trace[Len(trace)] \in {"out", "outfail"} <=> res.writes # <<>>
       /\ ~AllWhite(line) => Texts(res.writes) = <<Outcome(c, line).msg>>
       /\ res.cmderr # NoErr => pc = "returned"

\* Two iterations: "> ", output, "> ", the output of a command that fails.
C6_Witness ==
  /\ trace = <<"prompt", "read", "call", "out", "prompt", "read", "callerr", "out">>
  /\ pc = "returned" /\ ret = Oops

\* ------------------------------------------------------------------ C7
\* C7: when the callback returns a text and an error, the text is still
\* handed to c.Out, an error comes back (the callback's when the write was
\* done) and Loop returns that error.
C7_OutputBeforeError ==
  (Called /\ Returned(c, LastCall).err # NoErr /\ Returned(c, LastCall).msg # <<>>) =>
    LET k == Returned(c, LastCall) IN
    /\ Texts(res.writes) = <<k.msg>>
    /\ res.err = IF res.writes[1].ok THEN k.err ELSE ErrWrite
    /\ LoopCalled => (pc = "returned" /\ ret = res.err
                        /\ trace[Len(trace)] \in {"out", "outfail"})

\* Loop ended by the custom EmptyLine, whose text was written.
C7_Witness ==
  /\ LoopCalled /\ LastCall.fn = "EmptyLine" /\ c.EmptyLine = "custom"
  /\ res.writes = <<[text |-> <<"empty\n">>, ok |-> TRUE]>>
  /\ ret = ErrEmpty

\* ------------------------------------------------------------------ C8
\* C8: a failed write of the prompt, a failed read and a failed write of the
\* output each end Loop with that error; nothing is read, written or called
\* after it.
C8_IOErrorsFatal ==
  /\ [](\A i \in DOMAIN trace :
          trace[i] \in {"promptfail", "eof", "readerr", "outfail"} =>
            /\ i = Len(trace)
            /\ pc = "returned"
            /\ ret = CASE trace[i] = "eof" -> EOF
                       [] trace[i] = "readerr" -> ErrRead
                       [] OTHER -> ErrWrite)
  /\ [][pc # "returned"]_vars

\* The stream ended after one line had been served.
C8_Witness ==
  /\ pc = "returned" /\ ret = EOF
  /\ trace = <<"prompt", "read", "call", "out", "prompt", "eof">>

\* ------------------------------------------------------------------ C9
\* A line without the white space around it.
NonWhite(l) == {i \in DOMAIN l : l[i] \notin WS}
Core(l) ==
  IF NonWhite(l) = {} THEN <<>>
  ELSE SubSeq(l, CHOOSE i \in NonWhite(l) : \A j \in NonWhite(l) : i <= j,
                 CHOOSE i \in NonWhite(l) : \A j \in NonWhite(l) : i >= j)

C10_OneWriteAndFrame ==
  /\ [](/\ ~Called => res.writes = <<>>
        /\ Called => Len(res.writes) = IF Returned(c, LastCall).msg = <<>> THEN 0 ELSE 1)
  /\ [][c' = [c EXCEPT !.LastLine = c'.LastLine]]_vars

\* A blank line repeated "g b": EmptyLine and good were called, one Write made.
C10_Witness ==
  /\ Called /\ AllWhite(line) /\ Len(res.calls) = 2
  /\ Len(res.writes) = 1 /\ c.LastLine = <<"g", " ", "b">>

\* ----------------------------------------------------------------- C11
\* C11: a Write of the output that fails makes one return the write error,
\* whether the callback returned an error of its own or not, and Loop ends
\* with it.
C11_WriteErrorReturned ==
  (Called /\ res.writes # <<>> /\ ~res.writes[Len(res.writes)].ok) =>
    /\ res.err = ErrWrite
    /\ LoopCalled => (pc = "returned" /\ ret = ErrWrite)

\* bad returned "bad\n" and oops, the Write failed: the write error comes back.
C11_Witness ==
  /\ Called /\ LastCall.fn = "bad" /\ Len(res.calls) = 1
  /\ res.cmderr = Oops /\ res.err = ErrWrite

\* ----------------------------------------------------------------- C12
LastEvent(t) == IF t = <<>> THEN "none" ELSE t[Len(t)]

\* C12: Loop returns a non-nil error only, the one of the failed prompt,
\* read or output write or of the callback; until then it has returned
\* nothing, and a step without a failure takes it to its next place.
C12_LoopReturnsError ==
  /\ [](/\ pc = "returned" =>
             /\ ret # NoErr
             /\ LET e == trace[Len(trace)] IN
                \/ e \in {"promptfail", "outfail"} /\ ret = ErrWrite
                \/ e = "eof" /\ ret = EOF
                \/ e = "readerr" /\ ret = ErrRead
                \/ e \in {"callerr", "out"} /\ res.cmderr # NoErr /\ ret = res.cmderr
        /\ pc # "returned" => ret = NoErr)
  /\ [][/\ (pc \in {"init", "prompt"} /\ LastEvent(trace') = "prompt") => pc' = "read"
        /\ (pc = "read" /\ LastEvent(trace') = "read") => pc' = "one"
        /\ (pc = "one" /\ res'.err = NoErr) => pc' = "prompt"]_vars

\* The custom Default ended Loop on the second line.
C12_Witness ==
  /\ pc = "returned" /\ ret = ErrDefault
  /\ Len(trace) = 8

\* ----------------------------------------------------------------- C15
\* The complete lines of a stream, by the positions of its newlines.
NLs(s) == {i \in DOMAIN s : s[i] = NL}

Complete(s) == Cardinality(NLs(s))

KthEnd(s, k) == CHOOSE i \in NLs(s) : Cardinality({j \in NLs(s) : j <= i}) = k

KthLine(s, k) == SubSeq(s, IF k = 1 THEN 1 ELSE KthEnd(s, k - 1) + 1, KthEnd(s, k))

\* The lines Loop has had processed so far.
Processed == Cardinality({i \in DOMAIN trace : trace[i] \in {"call", "callerr"}})

\* C13 as stated, its result at the return: when Loop has returned over a
\* finite stream, either the line processed last returned an error, or every
\* complete line of the stream has been processed.
C13_AllLinesUpToError ==
  pc = "returned" => (res.err # NoErr \/ Processed = Complete(inp))

\* C13: over a finite stream of lines, with writes and callbacks that
\* finish, Loop eventually returns.  The k-th line processed is the k-th
\* complete line of the stream, each once and in order; a line whose
\* processing returned an error is the last one processed; and at the return
\* every complete line has been processed unless the last one processed
\* returned an error or the write of a prompt failed.
C13_LoopEndsInOrder ==
  /\ <>(pc = "returned")
  /\ [](LoopCalled =>
          /\ Processed <= Complete(inp)
          /\ line = KthLine(inp, Processed)
          /\ res.err # NoErr => pc = "returned")
  /\ [](pc = "returned" =>
          \/ res.err # NoErr
          \/ LastEvent(trace) = "promptfail"
          \/ Processed = Complete(inp))
  /\ [][pc = "returned" => UNCHANGED vars]_vars

C13_Witness ==
  /\ pc = "returned"
  /\ inp = <<"g", NL, NL, "g">>
  /\ Processed = 2
  /\ buf = <<"g">>
  /\ ret = EOF

\* The Cmd of a session and the history of the lines it was given.
CmdOf(i) == IF i = 1 THEN c ELSE c2

LastOf(i) == IF i = 1 THEN last ELSE last2

\* C14: two Cmds made by two calls of New over one table, their Loops running
\* side by side: a step of one Loop leaves the other Cmd as it was, LastLine
\* included; each Cmd's LastLine is the last line with a token given to that
\* Cmd; and a blank line given to a Cmd produces what that Cmd's own last
\* line with a token produces.
C14_SessionsIndependent ==
  /\ [][/\ run'[1] # run[1] => (c2' = c2 /\ run'[2] = run[2])
        /\ run'[2] # run[2] => (c' = c /\ run'[1] = run[1])]_vars
  /\ [](\A i \in Sessions : CmdOf(i).LastLine = LastOf(i))
  /\ []((who # 0 /\ AllWhite(line) /\ LastOf(who) # <<>>) =>
          LET o == Outcome(CmdOf(who), LastOf(who)) IN
          /\ Texts(res.writes) = <<o.msg>>
          /\ res.err = IF res.writes[1].ok THEN o.err ELSE ErrWrite)

\* Cmd 1 was given "g", then Cmd 2 "gg", then Cmd 1 a blank line: good again.
C14_Witness ==
  /\ who = 1 /\ AllWhite(line)
  /\ last = <<"g", NL>> /\ last2 = <<"g", "g", NL>>
  /\ c.LastLine = <<"g", NL>> /\ c2.LastLine = <<"g", "g", NL>>
  /\ Texts(res.writes) = <<good(<<>>).msg>>
  /\ run[2] = "one"

\* C15: a LastLine that is not empty has a token, so a blank line makes one
\* nested call at most, and that one does not come to EmptyLine again.
C15_RepeatIsBounded ==
  /\ c.LastLine # <<>> => Words(c.LastLine) # <<>>
  /\ (Called /\ c.EmptyLine = "repeat" /\ AllWhite(line)) =>
       /\ res.calls[1].fn = "EmptyLine"
       /\ Len(res.calls) <= 2
       /\ \A k \in 2..Len(res.calls) : res.calls[k].fn # "EmptyLine"

\* A blank line after " gg": EmptyLine, then Default, and no more.
C15_Witness ==
  /\ Called /\ c.EmptyLine = "repeat" /\ line = <<" ">>
  /\ c.LastLine = <<" ", "g", "g">>
  /\ Len(res.calls) = 2 /\ res.calls[2].fn = "Default"

\* ----------------------------------------------------------------- C16
\* C16: when the stream ends in bytes without a newline, Loop returns the
\* end-of-stream error; those bytes reach no callback, no Write is made for
\* them and LastLine stays as it was.
C16_PartialLineDropped ==
  /\ [](\A i \in DOMAIN trace :
          trace[i] = "eof" =>
            /\ i = Len(trace)
            /\ pc = "returned" /\ ret = EOF
            /\ res = NoRes
            /\ c.LastLine = last)
  /\ [][(pc = "read" /\ pc' # "one") => (pc' = "returned" /\ c' = c /\ res' = res)]_vars

\* The stream ended in "g", a registered name, after a line that was served.
C16_Witness ==
  /\ pc = "returned" /\ ret = EOF
  /\ buf = <<"g">>
  /\ c.LastLine # <<>> /\ c.LastLine # buf

\* ----------------------------------------------------------------- C17
\* The tokens c.Tokens gives for a line that is not blank.
TokensOf(l) == Tokenize(c.Tokens, Core(l))
\* The callback a line with a first token that is not empty goes to.
DispatchOf(l) ==
  LET t == TokensOf(l) IN
  IF t[1] \in DOMAIN c.Commands THEN [fn |-> c.Commands[t[1]], args |-> Rest(t)]
  ELSE [fn |-> "Default", args |-> <<l>>]
\* The callbacks of an empty-line event: EmptyLine, and under the EmptyLine
\* of New those of the line it repeats; none is for the line received.
EmptyLineEvent ==
  /\ res.calls[1] = [fn |-> "EmptyLine", args |-> <<>>]
  /\ c.LastLine # line
  /\ IF c.EmptyLine = "repeat" /\ c.LastLine # <<>>
     THEN res.calls = <<res.calls[1], DispatchOf(c.LastLine)>>
     ELSE Len(res.calls) = 1

\* C17: a line that is not blank for which c.Tokens gives no token is an
\* empty-line event: EmptyLine is called, the line goes to no handler and
\* not to Default, and LastLine does not become that line.
C17_NoTokensIsEmptyLine ==
  /\ []((Called /\ ~AllWhite(line) /\ TokensOf(line) = <<>>) => EmptyLineEvent)
  /\ [][c'.LastLine # c.LastLine =>
          (~AllWhite(line') /\ Tokenize(c'.Tokens, Core(line')) # <<>>)]_vars

\* "bg" under the comment tokenizer, after "g": the custom EmptyLine answers.
C17_Witness ==
  /\ Called /\ c.Tokens = "comment" /\ line = <<"b", "g">>
  /\ c.LastLine = <<"g">> /\ Len(res.calls) = 1
  /\ Texts(res.writes) = << <<"empty\n">> >>

====
